---------------------------- MODULE Spec2Model ----------------------------
(***************************************************************************)
(* Model of src/utils/crypto-utils.js: decryptWhatsAppMedia and the        *)
(* validation, digest and magic-byte helpers around it.                   *)
(*                                                                         *)
(* A Buffer is a sequence of bytes (0..255).  A JavaScript string that is  *)
(* used as base64 text is a sequence of character codes:                   *)
(*   0..63  the standard alphabet A-Z a-z 0-9 + /  (the code is the value) *)
(*   64     '='                                                            *)
(*   65,66  '-' and '_' (the url-safe spellings of 62 and 63)              *)
(*   67     any character outside the alphabet                             *)
(* The primitives of node's crypto module (SHA-256, HMAC, HKDF, AES) are   *)
(* replaced by small functions over bytes that keep what the code relies   *)
(* on: output lengths, determinism, dependence on key and data, and that   *)
(* the block cipher is a keyed permutation of 16-byte blocks.              *)
(***************************************************************************)
EXTENDS Integers, Sequences, FiniteSets, TLC

----------------------------------------------------------------------------
(* Bytes and Buffers                                                       *)

ByteMod == 256

Min(a, b) == IF a < b THEN a ELSE b
Max(a, b) == IF a > b THEN a ELSE b

\* bit k of a byte
Bit(a, k) == (a \div (2 ^ k)) % 2

\* the exclusive or of two bytes, bit by bit
XorBits(a, b) ==
    ((Bit(a, 0) + Bit(b, 0)) % 2) + 2 * ((Bit(a, 1) + Bit(b, 1)) % 2)
    + 4 * ((Bit(a, 2) + Bit(b, 2)) % 2) + 8 * ((Bit(a, 3) + Bit(b, 3)) % 2)
    + 16 * ((Bit(a, 4) + Bit(b, 4)) % 2) + 32 * ((Bit(a, 5) + Bit(b, 5)) % 2)
    + 64 * ((Bit(a, 6) + Bit(b, 6)) % 2) + 128 * ((Bit(a, 7) + Bit(b, 7)) % 2)

\* the same as a table, computed once
XorTable == [a \in 0..(ByteMod - 1) |-> [b \in 0..(ByteMod - 1) |-> XorBits(a, b)]]

XorByte(a, b) == XorTable[a][b]

\* the sum of s[lo..hi], by halves
RECURSIVE SumRange(_, _, _)
SumRange(s, lo, hi) ==
    IF lo > hi THEN 0
    ELSE IF lo = hi THEN s[lo]
    ELSE LET mid == (lo + hi) \div 2
         IN  SumRange(s, lo, mid) + SumRange(s, mid + 1, hi)

SumSeq(s) == SumRange(s, 1, Len(s))

\* Buffer.prototype.slice(start, end): negative indexes count from the end,
\* both are clamped to the buffer, an empty range gives an empty buffer.
SliceIndex(len, i) == IF i < 0 THEN Max(len + i, 0) ELSE Min(i, len)

Slice(buf, start, end) ==
    LET s == SliceIndex(Len(buf), start)
        e == SliceIndex(Len(buf), end)
    IN  IF e <= s THEN <<>> ELSE [i \in 1..(e - s) |-> buf[s + i]]

\* buf.slice(start): to the end of the buffer
SliceFrom(buf, start) == Slice(buf, start, Len(buf))

\* a slip: only the bytes both buffers have are compared
BufferEqualsCommon(a, b) ==
    \A i \in 1..Min(Len(a), Len(b)) : a[i] = b[i]

\* Buffer.prototype.equals: same length and same bytes
BufferEquals(a, b) == a = b

----------------------------------------------------------------------------
(* base64 text                                                             *)

PadChar == 64
MinusChar == 65
UnderscoreChar == 66
BadChar == 67

\* the decoder's table: the 6-bit value of a character, -1 for the others
UnBase64(c) ==
    IF c < 64 THEN c
    ELSE IF c = MinusChar THEN 62
    ELSE IF c = UnderscoreChar THEN 63
    ELSE -1

\* The characters the decoder consumes: it stops at the first '=' and skips
\* what is not in the alphabet.
InAlphabet(c) == UnBase64(c) >= 0

Sextets(str) ==
    LET pads == {i \in 1..Len(str) : str[i] = PadChar}
        stop == IF pads = {} THEN Len(str) + 1
                ELSE CHOOSE i \in pads : \A j \in pads : i <= j
        read == SelectSeq(SubSeq(str, 1, stop - 1), InAlphabet)
    IN  [i \in 1..Len(read) |-> UnBase64(read[i])]

\* Buffer.from(str, 'base64'): four sextets give three bytes, a tail of
\* two or three sextets gives one or two bytes, a tail of one gives none.
Base64Decode(str) ==
    LET sx == Sextets(str)
        n  == Len(sx)
        nb == 3 * (n \div 4) + (IF n % 4 = 0 THEN 0 ELSE (n % 4) - 1)
        ByteAt(j) ==
            LET g == 4 * ((j - 1) \div 3)
                r == (j - 1) % 3
            IN  IF r = 0 THEN (sx[g + 1] * 4 + sx[g + 2] \div 16) % ByteMod
                ELSE IF r = 1 THEN ((sx[g + 2] % 16) * 16 + sx[g + 3] \div 4) % ByteMod
                ELSE ((sx[g + 3] % 4) * 64 + sx[g + 4]) % ByteMod
    IN  [j \in 1..nb |-> ByteAt(j)]

\* digest('base64') / toString('base64'): the standard alphabet, padded
Base64Encode(buf) ==
    LET n  == Len(buf)
        nc == 4 * ((n + 2) \div 3)
        B(i) == IF i <= n THEN buf[i] ELSE 0
        CharAt(j) ==
            LET g == 3 * ((j - 1) \div 4)
                r == (j - 1) % 4
            IN  IF r = 0 THEN B(g + 1) \div 4
                ELSE IF r = 1 THEN (B(g + 1) % 4) * 16 + B(g + 2) \div 16
                ELSE IF r = 2
                     THEN IF g + 2 > n THEN PadChar
                          ELSE (B(g + 2) % 16) * 4 + B(g + 3) \div 64
                ELSE IF g + 3 > n THEN PadChar ELSE B(g + 3) % 64
    IN  [j \in 1..nc |-> CharAt(j)]

----------------------------------------------------------------------------
(* The primitives of node's crypto module                                  *)

HashLen == 32
BlockLen == 16
AesKeyLen == 32

\* crypto.createHash('sha256').update(d).digest(): 32 bytes.  Two sums
\* over the bytes of d, each byte weighted by its position, are kept modulo
\* a prime and spread over the 32 bytes of the digest with the length of d.
HashPrime == 32749

Sha256(d) ==
    LET n  == Len(d)
        h1 == SumSeq([i \in 1..n |-> (d[i] * ((i * 7919 + 13) % HashPrime)) % HashPrime])
                 % HashPrime
        h2 == SumSeq([i \in 1..n |-> ((d[i] + 1) * ((i * i * 31 + 7) % HashPrime)) % HashPrime])
                 % HashPrime
    IN  [j \in 1..HashLen |->
            (((h1 + 1) * (j + 2) + (h2 + 3) * (j * j + 5) + n * 11) % HashPrime)
                % ByteMod]

XorPad(key, pad) == [i \in 1..Len(key) |-> XorByte(key[i], pad)]

\* crypto.createHmac('sha256', key).update(m).digest():
\* H((key xor opad) || H((key xor ipad) || m))
HmacSha256(key, m) ==
    Sha256(XorPad(key, 92) \o Sha256(XorPad(key, 54) \o m))

\* crypto.hkdfSync('sha256', ikm, salt, info, length): extract with the salt
\* (an empty salt is HashLen zero bytes), then expand block by block,
\* T(n) = HMAC(prk, T(n-1) || info || n).  It takes an ikm of any length.
RECURSIVE HkdfExpand(_, _, _, _, _)
HkdfExpand(prk, info, prev, n, length) ==
    IF length <= 0 THEN <<>>
    ELSE LET t == HmacSha256(prk, prev \o info \o <<n>>)
         IN  IF length <= HashLen THEN SubSeq(t, 1, length)
             ELSE t \o HkdfExpand(prk, info, t, n + 1, length - HashLen)

HkdfSync(ikm, salt, info, length) ==
    LET s   == IF salt = <<>> THEN [i \in 1..HashLen |-> 0] ELSE salt
        prk == HmacSha256(s, ikm)
    IN  HkdfExpand(prk, info, <<>>, 1, length)

\* The AES block function as a keyed permutation of 16-byte blocks: the
\* bytes are rotated by one place and a key byte is added to each.
RoundKey(key) == [i \in 1..BlockLen |-> (key[i] + 3 * key[i + BlockLen]) % ByteMod]

AesEncryptBlock(key, p) ==
    LET rk == RoundKey(key)
    IN  [i \in 1..BlockLen |-> (p[(i % BlockLen) + 1] + rk[i]) % ByteMod]

AesDecryptBlock(key, c) ==
    LET rk == RoundKey(key)
        From(j) == ((j + BlockLen - 2) % BlockLen) + 1
    IN  [j \in 1..BlockLen |-> (c[From(j)] - rk[From(j)] + ByteMod) % ByteMod]

XorBlock(x, y) == [i \in 1..BlockLen |-> XorByte(x[i], y[i])]

\* CBC over whole blocks: p(n) = D(c(n)) xor c(n-1), with c(0) = iv
RECURSIVE CbcDecrypt(_, _, _)
CbcDecrypt(key, prev, ct) ==
    IF Len(ct) < BlockLen THEN <<>>
    ELSE LET c == SubSeq(ct, 1, BlockLen)
         IN  XorBlock(AesDecryptBlock(key, c), prev)
             \o CbcDecrypt(key, c, SubSeq(ct, BlockLen + 1, Len(ct)))

\* PKCS#7 as decipher.final() checks it on the last block: the last byte n
\* is in 1..16 and the last n bytes all equal n.
Pkcs7Valid(pt) ==
    /\ Len(pt) >= BlockLen
    /\ LET n == pt[Len(pt)]
       IN  /\ n >= 1
           /\ n <= BlockLen
           /\ \A i \in (Len(pt) - n + 1)..Len(pt) : pt[i] = n

Pkcs7Strip(pt) == SubSeq(pt, 1, Len(pt) - pt[Len(pt)])

----------------------------------------------------------------------------
(* JavaScript values: what a call returns or throws                        *)

ReturnBool(b)   == [status |-> "return", type |-> "boolean", bool |-> b,
                    buf |-> <<>>, text |-> ""]
ReturnBuffer(d) == [status |-> "return", type |-> "Buffer", bool |-> FALSE,
                    buf |-> d, text |-> ""]
ReturnString(t) == [status |-> "return", type |-> "string", bool |-> FALSE,
                    buf |-> <<>>, text |-> t]
Throw(msg)      == [status |-> "throw", type |-> "Error", bool |-> FALSE,
                    buf |-> <<>>, text |-> msg]
NoResult        == [status |-> "none", type |-> "undefined", bool |-> FALSE,
                    buf |-> <<>>, text |-> ""]

\* a string argument, and the value of an argument that was not passed
Str(chars) == [type |-> "string", chars |-> chars]
Undefined  == [type |-> "undefined", chars |-> <<>>]

\* createDecipheriv('aes-256-cbc', key, iv) with setAutoPadding(true), then
\* update(ct) and final(): final() throws on input that is empty or not a
\* whole number of blocks, and on bad padding.
Decipher(key, iv, ct) ==
    IF Len(ct) = 0 \/ Len(ct) % BlockLen # 0
    THEN Throw("wrong final block length")
    ELSE LET pt == CbcDecrypt(key, iv, ct)
         IN  IF Pkcs7Valid(pt) THEN ReturnBuffer(Pkcs7Strip(pt))
             ELSE Throw("bad decrypt")

----------------------------------------------------------------------------
(* src/utils/crypto-utils.js                                               *)

MacLen == 10
MediaKeyLen == 32
ExpandedKeyLen == 112
IvEnd == 16
CipherKeyEnd == 48
MacKeyEnd == 80
MagicLen == 12

\* 'WhatsApp Media Keys'
HkdfInfo == <<87, 104, 97, 116, 115, 65, 112, 112, 32, 77, 101, 100, 105, 97,
              32, 75, 101, 121, 115>>

ErrorPrefix == "Erro na descriptografia: "
MacErrorMessage == "Falha na verificacao de integridade (MAC invalido)"

\* Buffer.from(mediaKey, 'base64'): decodes any string, throws a TypeError
\* on a value that is no string
BufferFromBase64(v) ==
    IF v.type = "string" THEN ReturnBuffer(Base64Decode(v.chars))
    ELSE Throw("The first argument must be of type string")

\* a slip: the MACs compared without their last byte
TimingSafeEqualShort(a, b) ==
    IF Len(a) # Len(b)
    THEN Throw("Input buffers must have the same byte length")
    ELSE ReturnBool(Slice(a, 0, MacLen - 1) = Slice(b, 0, MacLen - 1))

\* a slip: the negation of line 40 lost, equal MACs rejected and different
\* ones let through
TimingSafeEqualInverted(a, b) ==
    IF Len(a) # Len(b)
    THEN Throw("Input buffers must have the same byte length")
    ELSE ReturnBool(a # b)

\* crypto.timingSafeEqual(a, b): throws a RangeError on buffers of
\* different lengths, else tells whether all bytes are equal
TimingSafeEqual(a, b) ==
    IF Len(a) # Len(b)
    THEN Throw("Input buffers must have the same byte length")
    ELSE ReturnBool(a = b)

\* the catch block of decryptWhatsAppMedia: every error is thrown again as
\* an Error whose message is the prefix and the message of the cause
Rethrow(error) == Throw(ErrorPrefix \o error.text)

\* expandedKey.slice(0, 16), .slice(16, 48), .slice(48, 80)
IvOf(expandedKey) == Slice(expandedKey, 0, IvEnd)

\* a slip: the cipher key taken from the start of the expanded key
CipherKeyFromStart(expandedKey) == Slice(expandedKey, 0, AesKeyLen)

CipherKeyOf(expandedKey) == Slice(expandedKey, IvEnd, CipherKeyEnd)

MacKeyOf(expandedKey) == Slice(expandedKey, CipherKeyEnd, MacKeyEnd)

\* computedMac: the first 10 bytes of HMAC-SHA256(macKey, iv || encryptedMedia)
ComputeMac(mk, ivBytes, media) ==
    Slice(HmacSha256(mk, ivBytes \o media), 0, MacLen)

\* a slip: a payload must be longer than its MAC, and no block check
validateEncryptedDataLoose(data) == ReturnBool(Len(data) > MacLen)

validateEncryptedData(data) ==
    IF Len(data) < MacLen THEN ReturnBool(FALSE)
    ELSE LET mediaSize == Len(data) - MacLen
         IN  IF mediaSize % BlockLen # 0 THEN ReturnBool(FALSE)
             ELSE ReturnBool(TRUE)

\* a slip: keys of 32 bytes or more pass
validateMediaKeyAtLeast(key) ==
    LET keyBuffer == BufferFromBase64(key)
    IN  IF keyBuffer.status = "throw" THEN ReturnBool(FALSE)
        ELSE ReturnBool(Len(keyBuffer.buf) >= MediaKeyLen)

validateMediaKey(key) ==
    LET keyBuffer == BufferFromBase64(key)
    IN  IF keyBuffer.status = "throw" THEN ReturnBool(FALSE)
        ELSE ReturnBool(Len(keyBuffer.buf) = MediaKeyLen)

\* a slip: the digests compared as decoded bytes, not as text
EqualsDecoded(chars, v) ==
    v.type = "string" /\ Base64Decode(v.chars) = Base64Decode(chars)

\* computedHash === expected: a string equals only a string with the same
\* characters
StrictEqualsString(chars, v) == v.type = "string" /\ v.chars = chars

verifyFileSha256(decrypted, expected) ==
    LET computedHash == Base64Encode(Sha256(decrypted))
    IN  ReturnBool(StrictEqualsString(computedHash, expected))

verifyEncryptedFileSha256(encrypted, expected) ==
    LET computedHash == Base64Encode(Sha256(encrypted))
    IN  ReturnBool(StrictEqualsString(computedHash, expected))

detectMimeType(data) ==
    LET magicBytes == Slice(data, 0, MagicLen)
    IN  IF \/ BufferEquals(Slice(magicBytes, 0, 4), <<255, 216, 255, 224>>)
           \/ BufferEquals(Slice(magicBytes, 0, 4), <<255, 216, 255, 225>>)
        THEN ReturnString("image/jpeg")
        ELSE IF BufferEquals(Slice(magicBytes, 0, 8),
                             <<137, 80, 78, 71, 13, 10, 26, 10>>)
        THEN ReturnString("image/png")
        ELSE IF BufferEquals(Slice(magicBytes, 0, 4), <<79, 103, 103, 83>>)
        THEN ReturnString("audio/ogg")
        ELSE IF BufferEquals(Slice(magicBytes, 0, 4), <<102, 76, 97, 67>>)
        THEN ReturnString("audio/flac")
        ELSE IF \/ BufferEquals(Slice(magicBytes, 0, 4), <<0, 0, 0, 24>>)
                \/ BufferEquals(Slice(magicBytes, 0, 4), <<0, 0, 0, 32>>)
        THEN ReturnString("video/mp4")
        ELSE IF \/ BufferEquals(Slice(magicBytes, 0, 3), <<73, 68, 51>>)
                \/ BufferEquals(Slice(magicBytes, 0, 2), <<255, 251>>)
        THEN ReturnString("audio/mpeg")
        ELSE ReturnString("application/octet-stream")

----------------------------------------------------------------------------
(* The inputs of the calls.  A sender's encryptor, the inverse scheme of    *)
(* decryptWhatsAppMedia, builds the payloads a receiver is given.          *)

NumKeys == 1
MaxPlainLen == 2
MaxDataLen == 28

Pkcs7Pad(pt) ==
    LET n == BlockLen - (Len(pt) % BlockLen)
    IN  pt \o [i \in 1..n |-> n]

RECURSIVE CbcEncrypt(_, _, _)
CbcEncrypt(key, prev, pt) ==
    IF Len(pt) < BlockLen THEN <<>>
    ELSE LET c == AesEncryptBlock(key, XorBlock(SubSeq(pt, 1, BlockLen), prev))
         IN  c \o CbcEncrypt(key, c, SubSeq(pt, BlockLen + 1, Len(pt)))

ExpandedKey(keyBytes) == HkdfSync(keyBytes, <<>>, HkdfInfo, ExpandedKeyLen)

\* ciphertext || first 10 bytes of HMAC-SHA256(macKey, iv || ciphertext),
\* under the expanded key ek
MacUnder(ek, ct) ==
    ct \o SubSeq(HmacSha256(SubSeq(ek, CipherKeyEnd + 1, MacKeyEnd),
                            SubSeq(ek, 1, IvEnd) \o ct), 1, MacLen)

EncryptUnder(ek, pt) ==
    MacUnder(ek, CbcEncrypt(SubSeq(ek, IvEnd + 1, CipherKeyEnd),
                            SubSeq(ek, 1, IvEnd), Pkcs7Pad(pt)))

WithMac(keyBytes, ct) == MacUnder(ExpandedKey(keyBytes), ct)

EncryptMedia(keyBytes, pt) == EncryptUnder(ExpandedKey(keyBytes), pt)

\* the length of the sender's payload for a plaintext
PayloadLen(pt) == Len(pt) + (BlockLen - (Len(pt) % BlockLen)) + MacLen

Bytes(n, seed) == [i \in 1..n |-> (seed * 37 + i * 11) % ByteMod]

FlipBit(byte, bit) == XorByte(byte, 2 ^ bit)

\* buf with one bit of its byte at place i flipped
FlipBitAt(buf, i, bit) == [buf EXCEPT ![i] = FlipBit(buf[i], bit)]

PlainLens == (0..MaxPlainLen) \cup {BlockLen - 1, BlockLen, BlockLen + 1}
Plaintexts == {Bytes(n, 1) : n \in PlainLens}

KeyLens == {0, 16, MediaKeyLen, MediaKeyLen + 1}
KeyBytes(n, seed) == [i \in 1..n |-> (seed * 53 + i * 29) % ByteMod]
GoodKey == Base64Encode(KeyBytes(MediaKeyLen, 1))

\* base64 of keys of several lengths, a key without its padding, a key with
\* a character outside the alphabet in it, text with no base64 in it, the
\* empty string, and no string at all
MediaKeys ==
    {Str(Base64Encode(KeyBytes(n, s))) : n \in KeyLens, s \in 1..NumKeys}
    \cup {Str(SubSeq(GoodKey, 1, Len(GoodKey) - 1)),
          Str(<<BadChar>> \o GoodKey),
          Str(<<BadChar, BadChar, BadChar, BadChar>>),
          Undefined}

\* the bytes decryptWhatsAppMedia derives its keys from
KeyBytesOf(key) == IF key.type = "string" THEN Base64Decode(key.chars) ELSE <<>>

\* the payloads whose trailing MAC has one bit flipped
MacFlips(payload) ==
    {FlipBitAt(payload, Len(payload) - MacLen + i, bit) :
        i \in 1..MacLen, bit \in 0..7}

\* What a receiver may be handed under a key: the sender's payloads, the
\* same with a bit of the ciphertext flipped, with a byte cut off or added,
\* ciphertexts of any length under a right MAC, and bytes that were never
\* encrypted; under a 32-byte key also a payload of one block and one of
\* two blocks with each single bit of the MAC flipped.
Payloads(keyBytes) ==
    LET ek   == ExpandedKey(keyBytes)
        sent == {EncryptUnder(ek, pt) : pt \in Plaintexts}
        one  == EncryptUnder(ek, Bytes(MaxPlainLen, 1))
        two  == EncryptUnder(ek, Bytes(BlockLen + 1, 1))
    IN  sent
        \cup (IF Len(keyBytes) = MediaKeyLen
              THEN MacFlips(one) \cup MacFlips(two) ELSE {})
        \cup {FlipBitAt(p, 1, 0) : p \in sent}
        \cup {SubSeq(p, 1, Len(p) - 1) : p \in sent}
        \cup {p \o <<0>> : p \in sent}
        \cup {MacUnder(ek, Bytes(n, 2)) :
                 n \in {0, 1, BlockLen, BlockLen + 1}}
        \cup {Bytes(n, 3) : n \in {0, MacLen - 1, MacLen, MacLen + BlockLen,
                                   MacLen + BlockLen + 1}}

\* buf with delta added to its byte at place i
AlterByte(buf, i, delta) == [buf EXCEPT ![i] = (buf[i] + delta) % ByteMod]

\* the data whose digest is verified: plaintexts, and plaintexts with one
\* byte altered
DigestData ==
    Plaintexts
    \cup {AlterByte(Bytes(n, 1), i, d) :
             n \in {MaxPlainLen, BlockLen + 1}, i \in 1..MaxPlainLen, d \in {1, 128}}
    \cup {AlterByte(Bytes(BlockLen + 1, 1), i, 255) : i \in 1..(BlockLen + 1)}

DigestOf(d) == Base64Encode(Sha256(d))

\* the '+' and '/' of base64 text in their url-safe spelling
UrlSafe(chars) ==
    [i \in 1..Len(chars) |->
        IF chars[i] = 62 THEN MinusChar
        ELSE IF chars[i] = 63 THEN UnderscoreChar ELSE chars[i]]

\* the expected digests a caller passes: digests of plaintexts, as they are,
\* without the padding and in the url-safe spelling, the empty string and
\* no value
ExpectedDigests ==
    {Str(DigestOf(pt)) : pt \in Plaintexts}
    \cup {Str(SubSeq(DigestOf(pt), 1, Len(DigestOf(pt)) - 1)) : pt \in Plaintexts}
    \cup {Str(UrlSafe(DigestOf(pt))) : pt \in Plaintexts}
    \cup {Str(<<>>), Undefined}

\* the signatures of section 4.5 in their order, each with its label
Signatures ==
    << [magic |-> <<255, 216, 255, 224>>, mime |-> "image/jpeg"],
       [magic |-> <<255, 216, 255, 225>>, mime |-> "image/jpeg"],
       [magic |-> <<137, 80, 78, 71, 13, 10, 26, 10>>, mime |-> "image/png"],
       [magic |-> <<79, 103, 103, 83>>, mime |-> "audio/ogg"],
       [magic |-> <<102, 76, 97, 67>>, mime |-> "audio/flac"],
       [magic |-> <<0, 0, 0, 24>>, mime |-> "video/mp4"],
       [magic |-> <<0, 0, 0, 32>>, mime |-> "video/mp4"],
       [magic |-> <<73, 68, 51>>, mime |-> "audio/mpeg"],
       [magic |-> <<255, 251>>, mime |-> "audio/mpeg"] >>

\* the data whose type is detected: every prefix of every signature, alone
\* and followed by other bytes, signatures with a byte altered, and data
\* that starts with no signature
MimeData ==
    {Slice(Signatures[k].magic, 0, n) \o tail :
        k \in 1..Len(Signatures), n \in 0..MagicLen,
        tail \in {<<>>, <<0>>, Bytes(MagicLen + MaxPlainLen, 1)}}
    \cup {AlterByte(Signatures[k].magic, i, 1) \o Bytes(MaxPlainLen, 1) :
             k \in 1..Len(Signatures), i \in 1..2}
    \cup {Signatures[k].magic \o Bytes(MaxPlainLen, 1) : k \in 1..Len(Signatures)}
    \cup Plaintexts

\* buffers of every length up to MaxDataLen
DataBuffers == {Bytes(n, 1) : n \in 0..MaxDataLen}

----------------------------------------------------------------------------
(* POST /decrypt (src/unnamed/part_000): requests and responses            *)

\* a JavaScript value in a condition: undefined and '' are false
Truthy(v) == v.type = "string" /\ v.chars # <<>>

\* the body of a request: whether it has a media message and the message a
\* url, the fields of the message, and what the url serves
Request(media, url, key, encSha, sha, serves) ==
    [media |-> media, url |-> url, mediaKey |-> key, fileEncSha256 |-> encSha,
     fileSha256 |-> sha, serves |-> serves]

NoRequest == Request(FALSE, FALSE, Undefined, Undefined, Undefined, <<>>)

\* res.status(code).json({error, ...}) and res.json({success: true, ...});
\* the error of a 500 stands for its message, error.message
ErrorResponse(code, error) ==
    [status |-> code, success |-> FALSE, error |-> error, base64 |-> <<>>,
     detectedMimeType |-> "", size |-> 0,
     encryptedHashVerified |-> "", decryptedHashVerified |-> ""]

\* validation flags: mediaData.fileEncSha256 ? true : 'not_provided'
HashFlag(expected) == IF Truthy(expected) THEN "true" ELSE "not_provided"

SuccessResponse(decrypted, encSha, sha) ==
    [status |-> 200, success |-> TRUE, error |-> "",
     base64 |-> Base64Encode(decrypted),
     detectedMimeType |-> detectMimeType(decrypted).text,
     size |-> Len(decrypted),
     encryptedHashVerified |-> HashFlag(encSha),
     decryptedHashVerified |-> HashFlag(sha)]

NoResponse == ErrorResponse(0, "")

\* validateMediaData: the list of errors of the message
validateMediaData(mediaData) ==
    (IF ~mediaData.url THEN <<"URL e obrigatoria">> ELSE <<>>)
    \o (IF ~Truthy(mediaData.mediaKey) THEN <<"mediaKey e obrigatoria">>
        ELSE IF ~validateMediaKey(mediaData.mediaKey).bool
        THEN <<"mediaKey tem formato invalido">>
        ELSE <<>>)

\* a slip: the return after a failed digest check lost
DigestRejectedNever(verified) == FALSE

\* if (!encHashValid) / if (!hashValid): the request ends with a 400
DigestRejected(verified) == ~verified.bool

\* The requests.  A plaintext that starts as a JPEG file; under each key
\* the url serves the sender's payload, the payload with a bit of the MAC
\* flipped or a byte cut off, nine bytes, and a block of bytes that are no
\* padded plaintext under a right MAC.
HandlerPlain == <<255, 216, 255, 224>> \o Bytes(MaxPlainLen, 1)

Served(keyBytes) ==
    LET ek   == ExpandedKey(keyBytes)
        sent == EncryptUnder(ek, HandlerPlain)
    IN  {sent, FlipBitAt(sent, Len(sent), 0), SubSeq(sent, 1, Len(sent) - 1),
         Bytes(MacLen - 1, 3), MacUnder(ek, Bytes(BlockLen, 2))}

HandlerKeys ==
    {Str(GoodKey), Str(Base64Encode(KeyBytes(16, 1))), Str(<<>>), Undefined}

Requests ==
    {NoRequest}
    \cup UNION {
        {Request(TRUE, url, key, encSha, sha, data) :
            url \in BOOLEAN,
            encSha \in {Undefined, Str(<<>>), Str(DigestOf(data)),
                        Str(DigestOf(<<>>))},
            sha \in {Undefined, Str(<<>>), Str(DigestOf(HandlerPlain)),
                     Str(DigestOf(<<>>))}} :
        <<key, data>> \in UNION {{<<k, d>> : d \in Served(KeyBytesOf(k))} :
                                    k \in HandlerKeys}}

----------------------------------------------------------------------------
(* The calls.  decryptWhatsAppMedia runs in the steps its code takes one    *)
(* after the other; the other functions return in one step.                *)

VARIABLES
    op,              \* the function that was called
    pc,              \* where the call stands
    mediaKey,        \* argument: the media key, base64 text
    encryptedData,   \* argument: the Buffer the function is given
    expectedSha256,  \* argument: the expected digest, base64 text
    mediaKeyBuffer,  \* locals of decryptWhatsAppMedia
    iv,
    cipherKey,
    macKey,
    encryptedMedia,
    receivedMac,
    computedMac,
    hkdfCalls,       \* history: the key lengths hkdfSync was called with
    macCompared,     \* history: the outcome of timingSafeEqual
    decipherCalled,  \* history: the decipher was created and run
    result,          \* what the call returned or threw
    hpc,             \* POST /decrypt: where the handler stands
    req,             \* POST /decrypt: the request and what its url serves
    res,             \* POST /decrypt: the response that was sent
    stepsRun         \* history: the steps the handler has run, in order

vars == <<op, pc, mediaKey, encryptedData, expectedSha256, mediaKeyBuffer, iv,
          cipherKey, macKey, encryptedMedia, receivedMac, computedMac,
          hkdfCalls, macCompared, decipherCalled, result,
          hpc, req, res, stepsRun>>

args == <<op, mediaKey, encryptedData, expectedSha256>>
keys == <<mediaKeyBuffer, iv, cipherKey, macKey>>
macs == <<encryptedMedia, receivedMac, computedMac>>
locals == <<keys, macs>>
history == <<hkdfCalls, macCompared, decipherCalled>>
hvars == <<hpc, req, res, stepsRun>>

Init ==
    /\ op = "none"
    /\ pc = "idle"
    /\ mediaKey = Undefined
    /\ encryptedData = <<>>
    /\ expectedSha256 = Undefined
    /\ mediaKeyBuffer = <<>>
    /\ iv = <<>>
    /\ cipherKey = <<>>
    /\ macKey = <<>>
    /\ encryptedMedia = <<>>
    /\ receivedMac = <<>>
    /\ computedMac = <<>>
    /\ hkdfCalls = <<>>
    /\ macCompared = "no"
    /\ decipherCalled = FALSE
    /\ result = NoResult
    /\ hpc = "none"
    /\ req = NoRequest
    /\ res = NoResponse
    /\ stepsRun = <<>>

\* a caller calls decryptWhatsAppMedia(mediaKey, encryptedData)
CallDecrypt ==
    /\ pc = "idle"
    /\ UNCHANGED hvars
    /\ \E key \in MediaKeys :
         \E data \in Payloads(KeyBytesOf(key)) :
            /\ mediaKey' = key
            /\ encryptedData' = data
    /\ op' = "decryptWhatsAppMedia"
    /\ pc' = "derive"
    /\ UNCHANGED <<expectedSha256, locals, history, result>>

\* lines 18-26: decode the key, expand it, take iv, cipherKey and macKey
DeriveKeys ==
    /\ pc = "derive"
    /\ UNCHANGED hvars
    /\ LET decoded == BufferFromBase64(mediaKey)
       IN  IF decoded.status = "throw"
           THEN /\ result' = Rethrow(decoded)
                /\ pc' = "done"
                /\ UNCHANGED <<keys, hkdfCalls>>
           ELSE LET expandedKey ==
                        HkdfSync(decoded.buf, <<>>, HkdfInfo, ExpandedKeyLen)
                IN  /\ mediaKeyBuffer' = decoded.buf
                    /\ hkdfCalls' = Append(hkdfCalls, Len(decoded.buf))
                    /\ iv' = IvOf(expandedKey)
                    /\ cipherKey' = CipherKeyOf(expandedKey)
                    /\ macKey' = MacKeyOf(expandedKey)
                    /\ pc' = "mac"
                    /\ UNCHANGED result
    /\ UNCHANGED <<args, macs, macCompared, decipherCalled>>

\* lines 29-37: split the payload and compute the MAC of iv || ciphertext
SplitAndMac ==
    /\ pc = "mac"
    /\ UNCHANGED hvars
    /\ encryptedMedia' = Slice(encryptedData, 0, -MacLen)
    /\ receivedMac' = SliceFrom(encryptedData, -MacLen)
    /\ computedMac' = ComputeMac(macKey, iv, Slice(encryptedData, 0, -MacLen))
    /\ pc' = "compare"
    /\ UNCHANGED <<args, keys, history, result>>

\* lines 40-42: compare the MACs; a thrown error goes to the catch block
VerifyMac ==
    /\ pc = "compare"
    /\ UNCHANGED hvars
    /\ LET same == TimingSafeEqual(receivedMac, computedMac)
       IN  IF same.status = "throw"
           THEN /\ macCompared' = "threw"
                /\ result' = Rethrow(same)
                /\ pc' = "done"
           ELSE IF ~same.bool
           THEN /\ macCompared' = "differ"
                /\ result' = Rethrow(Throw(MacErrorMessage))
                /\ pc' = "done"
           ELSE /\ macCompared' = "equal"
                /\ pc' = "decipher"
                /\ UNCHANGED result
    /\ UNCHANGED <<args, locals, hkdfCalls, decipherCalled>>

\* lines 45-53: AES-256-CBC with padding; the plaintext is returned
DecipherMedia ==
    /\ pc = "decipher"
    /\ UNCHANGED hvars
    /\ decipherCalled' = TRUE
    /\ LET decrypted == Decipher(cipherKey, iv, encryptedMedia)
       IN  result' = IF decrypted.status = "throw" THEN Rethrow(decrypted)
                     ELSE decrypted
    /\ pc' = "done"
    /\ UNCHANGED <<args, locals, hkdfCalls, macCompared>>

\* the functions that return in one step
Returns(name, value) ==
    /\ op' = name
    /\ result' = value
    /\ pc' = "done"
    /\ UNCHANGED <<locals, history, hvars>>

CallValidateEncryptedData ==
    /\ pc = "idle"
    /\ \E data \in DataBuffers :
        /\ encryptedData' = data
        /\ Returns("validateEncryptedData", validateEncryptedData(data))
    /\ UNCHANGED <<mediaKey, expectedSha256>>

CallValidateMediaKey ==
    /\ pc = "idle"
    /\ \E key \in MediaKeys :
        /\ mediaKey' = key
        /\ Returns("validateMediaKey", validateMediaKey(key))
    /\ UNCHANGED <<encryptedData, expectedSha256>>

CallVerifyFileSha256 ==
    /\ pc = "idle"
    /\ \E data \in DigestData, expected \in ExpectedDigests :
        /\ encryptedData' = data
        /\ expectedSha256' = expected
        /\ Returns("verifyFileSha256", verifyFileSha256(data, expected))
    /\ UNCHANGED mediaKey

CallVerifyEncryptedFileSha256 ==
    /\ pc = "idle"
    /\ \E data \in DigestData, expected \in ExpectedDigests :
        /\ encryptedData' = data
        /\ expectedSha256' = expected
        /\ Returns("verifyEncryptedFileSha256",
                   verifyEncryptedFileSha256(data, expected))
    /\ UNCHANGED mediaKey

CallDetectMimeType ==
    /\ pc = "idle"
    /\ \E data \in MimeData :
        /\ encryptedData' = data
        /\ Returns("detectMimeType", detectMimeType(data))
    /\ UNCHANGED <<mediaKey, expectedSha256>>

\* the caller is back: the next call starts from fresh locals
Return ==
    /\ pc = "done"
    /\ UNCHANGED hvars
    /\ op' = "none"
    /\ pc' = "idle"
    /\ mediaKey' = Undefined
    /\ encryptedData' = <<>>
    /\ expectedSha256' = Undefined
    /\ mediaKeyBuffer' = <<>>
    /\ iv' = <<>>
    /\ cipherKey' = <<>>
    /\ macKey' = <<>>
    /\ encryptedMedia' = <<>>
    /\ receivedMac' = <<>>
    /\ computedMac' = <<>>
    /\ hkdfCalls' = <<>>
    /\ macCompared' = "no"
    /\ decipherCalled' = FALSE
    /\ result' = NoResult

Next ==
    \/ CallDecrypt
    \/ DeriveKeys
    \/ SplitAndMac
    \/ VerifyMac
    \/ DecipherMedia
    \/ CallValidateEncryptedData
    \/ CallValidateMediaKey
    \/ CallVerifyFileSha256
    \/ CallVerifyEncryptedFileSha256
    \/ CallDetectMimeType
    \/ Return

Spec == Init /\ [][Next]_vars

----------------------------------------------------------------------------
(* POST /decrypt: the handler, in the steps its code takes.  It calls       *)
(* decryptWhatsAppMedia, which runs in the steps above.                    *)

decryptState == <<args, locals, history, result, pc>>

Ran(step) == stepsRun' = Append(stepsRun, step)

\* the response is sent and the handler is over
Send(response) ==
    /\ res' = response
    /\ hpc' = "sent"

\* lines 393-416: the media message of the body, or a 400 when it has none
ReceiveRequest ==
    /\ hpc = "none"
    /\ pc = "idle"
    /\ \E r \in Requests :
        /\ req' = r
        /\ IF r.media
           THEN hpc' = "validate" /\ UNCHANGED res
           ELSE Send(ErrorResponse(400, "Nenhuma midia valida encontrada na requisicao"))
    /\ UNCHANGED <<stepsRun, decryptState>>

\* lines 419-425: validateMediaData; errors end the request with a 400
ValidateRequest ==
    /\ hpc = "validate"
    /\ Ran("validateMediaData")
    /\ IF Len(validateMediaData(req)) > 0
       THEN Send(ErrorResponse(400, "Dados de midia invalidos"))
       ELSE hpc' = "download" /\ UNCHANGED res
    /\ UNCHANGED <<req, decryptState>>

\* line 428: downloadEncryptedFile; a failed download is thrown and ends
\* in the catch block of the handler with a 500
Download ==
    /\ hpc = "download"
    /\ Ran("downloadEncryptedFile")
    /\ \E ok \in BOOLEAN :
        IF ok
        THEN /\ encryptedData' = req.serves
             /\ hpc' = "format"
             /\ UNCHANGED res
        ELSE /\ Send(ErrorResponse(500, "Erro ao baixar arquivo"))
             /\ UNCHANGED encryptedData
    /\ UNCHANGED <<req, op, mediaKey, expectedSha256, locals, history, result, pc>>

\* lines 431-435: validateEncryptedData
CheckFormat ==
    /\ hpc = "format"
    /\ Ran("validateEncryptedData")
    /\ IF ~validateEncryptedData(encryptedData).bool
       THEN Send(ErrorResponse(400, "Formato dos dados criptografados invalido"))
       ELSE hpc' = "encHash" /\ UNCHANGED res
    /\ UNCHANGED <<req, decryptState>>

\* lines 438-445: the digest of the ciphertext, when the message has one
CheckEncHash ==
    /\ hpc = "encHash"
    /\ IF Truthy(req.fileEncSha256)
       THEN /\ Ran("verifyEncryptedFileSha256")
            /\ IF DigestRejected(verifyEncryptedFileSha256(encryptedData,
                                                          req.fileEncSha256))
               THEN Send(ErrorResponse(400, "Hash do arquivo criptografado nao confere"))
               ELSE hpc' = "decrypt" /\ UNCHANGED res
       ELSE /\ hpc' = "decrypt"
            /\ UNCHANGED <<res, stepsRun>>
    /\ UNCHANGED <<req, decryptState>>

\* line 448: the call of decryptWhatsAppMedia(mediaData.mediaKey, encryptedData)
StartDecrypt ==
    /\ hpc = "decrypt"
    /\ pc = "idle"
    /\ Ran("decryptWhatsAppMedia")
    /\ op' = "decryptWhatsAppMedia"
    /\ mediaKey' = req.mediaKey
    /\ pc' = "derive"
    /\ hpc' = "decrypting"
    /\ UNCHANGED <<req, res, encryptedData, expectedSha256, locals, history, result>>

\* line 448 and lines 486-492: the call is back; what it threw ends in the
\* catch block with a 500
EndDecrypt ==
    /\ hpc = "decrypting"
    /\ pc = "done"
    /\ IF result.status = "throw"
       THEN Send(ErrorResponse(500, result.text))
       ELSE hpc' = "hash" /\ UNCHANGED res
    /\ UNCHANGED <<req, stepsRun, decryptState>>

\* lines 451-458: the digest of the plaintext, when the message has one
CheckHash ==
    /\ hpc = "hash"
    /\ IF Truthy(req.fileSha256)
       THEN /\ Ran("verifyFileSha256")
            /\ IF DigestRejected(verifyFileSha256(result.buf, req.fileSha256))
               THEN Send(ErrorResponse(400, "Hash do arquivo descriptografado nao confere"))
               ELSE hpc' = "respond" /\ UNCHANGED res
       ELSE /\ hpc' = "respond"
            /\ UNCHANGED <<res, stepsRun>>
    /\ UNCHANGED <<req, decryptState>>

\* lines 461-484: detect the type, encode, send the success response
Respond ==
    /\ hpc = "respond"
    /\ Ran("detectMimeType")
    /\ Send(SuccessResponse(result.buf, req.fileEncSha256, req.fileSha256))
    /\ UNCHANGED <<req, decryptState>>

\* the request is over: the next one starts from nothing
EndRequest ==
    /\ hpc = "sent"
    /\ hpc' = "none"
    /\ req' = NoRequest
    /\ res' = NoResponse
    /\ stepsRun' = <<>>
    /\ op' = "none"
    /\ pc' = "idle"
    /\ mediaKey' = Undefined
    /\ encryptedData' = <<>>
    /\ mediaKeyBuffer' = <<>>
    /\ iv' = <<>>
    /\ cipherKey' = <<>>
    /\ macKey' = <<>>
    /\ encryptedMedia' = <<>>
    /\ receivedMac' = <<>>
    /\ computedMac' = <<>>
    /\ hkdfCalls' = <<>>
    /\ macCompared' = "no"
    /\ decipherCalled' = FALSE
    /\ result' = NoResult
    /\ UNCHANGED expectedSha256

HandlerNext ==
    \/ ReceiveRequest
    \/ ValidateRequest
    \/ Download
    \/ CheckFormat
    \/ CheckEncHash
    \/ StartDecrypt
    \/ DeriveKeys
    \/ SplitAndMac
    \/ VerifyMac
    \/ DecipherMedia
    \/ EndDecrypt
    \/ CheckHash
    \/ Respond
    \/ EndRequest

HandlerSpec == Init /\ [][HandlerNext]_vars

----------------------------------------------------------------------------
(* Properties                                                              *)

Done(name) == op = name /\ pc = "done"

Threw == result.status = "throw"

KeyIsValid == Len(KeyBytesOf(mediaKey)) = MediaKeyLen /\ mediaKey.type = "string"

\* the payload format of section 3: a 10-byte MAC after whole blocks
FormatIsValid(data) ==
    Len(data) >= MacLen /\ (Len(data) - MacLen) % BlockLen = 0

\* the last 10 bytes of the payload, or all of it when it is shorter
TrailingMac(data) ==
    SubSeq(data, Max(Len(data) - MacLen, 0) + 1, Len(data))

\* The failure kind a caller can read off a thrown error, in the reading
\* most favourable to the code: each message the code can throw is taken
\* as the kind of the only cause it can have.
ReportedKind(error) ==
    IF error.text = ErrorPrefix \o MacErrorMessage THEN "MacMismatch"
    ELSE IF error.text \in {ErrorPrefix \o "bad decrypt",
                            ErrorPrefix \o "wrong final block length"}
    THEN "DecryptionFailure"
    ELSE IF error.text = ErrorPrefix \o "Input buffers must have the same byte length"
    THEN "InvalidPayloadFormat"
    ELSE IF error.text = ErrorPrefix \o "The first argument must be of type string"
    THEN "InvalidKeyLength"
    ELSE "Error"

\* C1: the MAC comparison is over before the decipher runs, the decipher runs
\* only on a payload whose trailing MAC equals the computed one, and a call
\* whose MACs differ ends in an error without the decipher having run.
C1_MacBeforeDecipher ==
    op = "decryptWhatsAppMedia" =>
        /\ (pc = "decipher" \/ decipherCalled) =>
              /\ macCompared = "equal"
              /\ computedMac = TrailingMac(encryptedData)
              /\ Len(computedMac) = MacLen
        /\ (pc \in {"compare", "decipher", "done"}
              /\ computedMac # TrailingMac(encryptedData)) =>
              /\ ~decipherCalled
              /\ pc # "decipher"
              /\ pc = "done" => Threw

C1_Witness ==
    /\ Done("decryptWhatsAppMedia")
    /\ macCompared = "differ"
    /\ FormatIsValid(encryptedData)
    /\ KeyIsValid
    /\ Threw
    /\ ~decipherCalled

C4_KeyLengthCheckedFirst ==
    /\ \A n \in 1..Len(hkdfCalls) : hkdfCalls[n] = MediaKeyLen
    /\ (Done("decryptWhatsAppMedia") /\ ~KeyIsValid) =>
          Threw /\ ReportedKind(result) = "InvalidKeyLength"

\* C5: decrypt of a payload shorter than 10 bytes, or whose length less 10
\* is no multiple of 16, fails with InvalidPayloadFormat.
C5_PayloadFormatChecked ==
    (Done("decryptWhatsAppMedia") /\ KeyIsValid
        /\ ~FormatIsValid(encryptedData)) =>
        Threw /\ ReportedKind(result) = "InvalidPayloadFormat"

\* the failure kind section 7 gives to a cause
CauseKind ==
    IF ~KeyIsValid THEN "InvalidKeyLength"
    ELSE IF ~FormatIsValid(encryptedData) THEN "InvalidPayloadFormat"
    ELSE IF computedMac # TrailingMac(encryptedData) THEN "MacMismatch"
    ELSE "DecryptionFailure"

\* C6: every failure of decrypt is reported as the one kind its cause has.
C6_FailureKindByCause ==
    (Done("decryptWhatsAppMedia") /\ Threw) => ReportedKind(result) = CauseKind

\* C7: validateEncryptedData returns true exactly for lengths L with
\* L >= 10 and (L - 10) % 16 = 0: false for 9 and 27, true for 10 and 26.
C7_PayloadFormat ==
    Done("validateEncryptedData") =>
        /\ result = ReturnBool(FormatIsValid(encryptedData))
        /\ Len(encryptedData) \in {9, 27} => result = ReturnBool(FALSE)
        /\ Len(encryptedData) \in {10, 26} => result = ReturnBool(TRUE)

C7_Witness ==
    /\ Done("validateEncryptedData")
    /\ Len(encryptedData) = 27
    /\ result = ReturnBool(FALSE)

\* the number of bytes base64 text carries: six bits for each character of
\* the alphabet before the first '='
CarriedBytes(chars) ==
    LET pads == {i \in 1..Len(chars) : chars[i] = PadChar}
        read == {i \in 1..Len(chars) :
                    /\ chars[i] \notin {PadChar, BadChar}
                    /\ \A j \in pads : i < j}
    IN  (6 * Cardinality(read)) \div 8

\* C8: validateMediaKey returns, and never throws; it returns true exactly
\* for a string that carries 32 bytes: true for the base64 of 32 bytes,
\* false for the base64 of 0, 16 and 33 bytes, for text without base64 in
\* it and for a value that is no string.
C8_MediaKeyFormat ==
    Done("validateMediaKey") =>
        /\ result.status = "return"
        /\ result.type = "boolean"
        /\ result.bool <=>
              (mediaKey.type = "string" /\ CarriedBytes(mediaKey.chars) = 32)
        /\ \A n \in KeyLens, s \in 1..NumKeys :
              mediaKey = Str(Base64Encode(KeyBytes(n, s)))
                  => result.bool = (n = 32)
        /\ mediaKey \in {Undefined, Str(<<BadChar, BadChar, BadChar, BadChar>>)}
              => ~result.bool

C8_Witness ==
    /\ Done("validateMediaKey")
    /\ mediaKey = Str(Base64Encode(KeyBytes(33, 1)))
    /\ result = ReturnBool(FALSE)

IsPrefix(magic, data) ==
    /\ Len(magic) <= Len(data)
    /\ \A i \in 1..Len(magic) : data[i] = magic[i]

\* the label of the first signature that is a prefix of the data
FirstMatch(data) ==
    LET hits == {k \in 1..Len(Signatures) : IsPrefix(Signatures[k].magic, data)}
    IN  IF hits = {} THEN "application/octet-stream"
        ELSE Signatures[CHOOSE k \in hits : \A h \in hits : k <= h].mime

\* C9: detectMimeType returns, for data of any length, the label of the
\* first signature of the table that is a prefix of the data, and
\* application/octet-stream when none is.
C9_FirstSignature ==
    Done("detectMimeType") => result = ReturnString(FirstMatch(encryptedData))

C9_Witness ==
    /\ Done("detectMimeType")
    /\ encryptedData = <<137, 80, 78, 71, 13, 10, 26>>
    /\ result = ReturnString("application/octet-stream")

\* C10: both digest checks return a boolean and never throw; it is true
\* exactly when the expected text is the base64 of the SHA-256 of the data,
\* so false for data altered in a byte and for an absent expected value.
C10_DigestChecks ==
    (Done("verifyFileSha256") \/ Done("verifyEncryptedFileSha256")) =>
        /\ result.status = "return"
        /\ result.type = "boolean"
        /\ result.bool <=> expectedSha256 = Str(DigestOf(encryptedData))
        /\ expectedSha256 = Undefined => ~result.bool
        /\ \A pt \in Plaintexts :
              (expectedSha256 = Str(DigestOf(pt)) /\ encryptedData # pt)
                  => ~result.bool

C10_Witness ==
    /\ Done("verifyEncryptedFileSha256")
    /\ expectedSha256 = Str(DigestOf(Bytes(BlockLen + 1, 1)))
    /\ encryptedData = AlterByte(Bytes(BlockLen + 1, 1), BlockLen + 1, 255)
    /\ result = ReturnBool(FALSE)

\* the steps of a request in their order; a digest check is a step only
\* when the message has the digest
Planned(r) ==
    <<"validateMediaData", "downloadEncryptedFile", "validateEncryptedData">>
    \o (IF Truthy(r.fileEncSha256) THEN <<"verifyEncryptedFileSha256">> ELSE <<>>)
    \o <<"decryptWhatsAppMedia">>
    \o (IF Truthy(r.fileSha256) THEN <<"verifyFileSha256">> ELSE <<>>)
    \o <<"detectMimeType">>

\* what it is for a step to have accepted its input
StepPassed(step) ==
    CASE step = "validateMediaData" ->
            /\ req.url
            /\ req.mediaKey.type = "string"
            /\ CarriedBytes(req.mediaKey.chars) = 32
      [] step = "downloadEncryptedFile" -> encryptedData = req.serves
      [] step = "validateEncryptedData" -> FormatIsValid(req.serves)
      [] step = "verifyEncryptedFileSha256" ->
            req.fileEncSha256 = Str(DigestOf(req.serves))
      [] step = "decryptWhatsAppMedia" ->
            /\ pc = "done"
            /\ result.status = "return"
            /\ macCompared = "equal"
            /\ computedMac = TrailingMac(req.serves)
      [] step = "verifyFileSha256" -> req.fileSha256 = Str(DigestOf(result.buf))
      [] OTHER -> TRUE

FlagOf(expected) == IF Truthy(expected) THEN "true" ELSE "not_provided"

\* C11: the handler runs its steps in the order validateMediaData (with
\* validateMediaKey), download, validateEncryptedData, the ciphertext digest
\* when given, decryptWhatsAppMedia, the plaintext digest when given; a step
\* runs only after all steps before it accepted.  A success response is sent
\* only after every step ran and accepted, with the flags true for the
\* digests given and 'not_provided' for the others; any other response is a
\* 400 or a 500 sent at the step that failed, with no later step run.
C11_HandlerOrder ==
    /\ Len(stepsRun) <= Len(Planned(req))
    /\ \A i \in 1..Len(stepsRun) :
          /\ stepsRun[i] = Planned(req)[i]
          /\ i < Len(stepsRun) => StepPassed(stepsRun[i])
    /\ (hpc = "sent" /\ res.success) =>
          /\ res.status = 200
          /\ stepsRun = Planned(req)
          /\ \A i \in 1..Len(stepsRun) : StepPassed(stepsRun[i])
          /\ res.base64 = Base64Encode(result.buf)
          /\ res.encryptedHashVerified = FlagOf(req.fileEncSha256)
          /\ res.decryptedHashVerified = FlagOf(req.fileSha256)
    /\ (hpc = "sent" /\ ~res.success) =>
          /\ res.status \in {400, 500}
          /\ Len(stepsRun) < Len(Planned(req))
          /\ stepsRun # <<>> => ~StepPassed(stepsRun[Len(stepsRun)])
          /\ stepsRun = <<>> => ~req.media
    /\ hpc # "sent" => res = NoResponse

C11_Witness ==
    /\ hpc = "sent"
    /\ res.success
    /\ Truthy(req.fileEncSha256)
    /\ Truthy(req.fileSha256)
    /\ res.encryptedHashVerified = "true"
    /\ res.decryptedHashVerified = "true"
    /\ res.base64 = Base64Encode(HandlerPlain)
    /\ res.detectedMimeType = "image/jpeg"

========================================================================
